---------------------------- MODULE Spec2Model ----------------------------
(***************************************************************************)
(* Streaming transcript stitching of the sbc-audio-transcription scripts.  *)
(*                                                                         *)
(* A text is a sequence of one-character strings, so that splitting on     *)
(* whitespace, joining with spaces, lower-casing and stripping are         *)
(* computed character by character as Python computes them.                *)
(***************************************************************************)
EXTENDS Integers, Sequences, FiniteSets, TLC

(***************************************************************************)
(* Python string and list primitives                                       *)
(***************************************************************************)

\* Characters str.split(), str.strip() and the regex class \s treat as blank.
Whitespace == {" ", "\t", "\n"}

Min2(a, b) == IF a < b THEN a ELSE b

Max2(a, b) == IF a > b THEN a ELSE b

Range(s) == {s[i] : i \in 1..Len(s)}

\* x repeated n times, as a list.
Repeat(x, n) == [i \in 1..n |-> x]

\* str.lower() on one character of the alphabet in use.
ToLower(c) ==
    CASE c = "A" -> "a"
      [] c = "B" -> "b"
      [] c = "C" -> "c"
      [] c = "D" -> "d"
      [] OTHER -> c

\* str.lower()
Lower(s) == [i \in 1..Len(s) |-> ToLower(s[i])]

RECURSIVE SplitAcc(_, _, _)
SplitAcc(s, cur, acc) ==
    IF s = <<>>
    THEN IF cur = <<>> THEN acc ELSE Append(acc, cur)
    ELSE IF Head(s) \in Whitespace
         THEN SplitAcc(Tail(s), <<>>, IF cur = <<>> THEN acc ELSE Append(acc, cur))
         ELSE SplitAcc(Tail(s), Append(cur, Head(s)), acc)

\* str.split() without arguments: the maximal runs of non-blank characters.
Split(s) == SplitAcc(s, <<>>, <<>>)

RECURSIVE JoinWith(_, _)
JoinWith(sep, words) ==
    IF words = <<>> THEN <<>>
    ELSE IF Len(words) = 1 THEN words[1]
    ELSE words[1] \o sep \o JoinWith(sep, Tail(words))

\* ' '.join(words)
Join(words) == JoinWith(<<" ">>, words)

\* str.strip(): drop leading and trailing blanks.
Strip(s) ==
    LET keep == {i \in 1..Len(s) : s[i] \notin Whitespace}
    IN IF keep = {} THEN <<>>
       ELSE LET lo == CHOOSE i \in keep : \A j \in keep : i <= j
                hi == CHOOSE i \in keep : \A j \in keep : j <= i
            IN SubSeq(s, lo, hi)

RECURSIVE CollapseRuns(_, _)
CollapseRuns(s, inRun) ==
    IF s = <<>> THEN <<>>
    ELSE IF Head(s) \in Whitespace
         THEN IF inRun THEN CollapseRuns(Tail(s), TRUE)
              ELSE <<" ">> \o CollapseRuns(Tail(s), TRUE)
         ELSE <<Head(s)>> \o CollapseRuns(Tail(s), FALSE)

\* re.sub(r'\s+', ' ', text): every maximal run of blanks becomes one space.
ReSubBlankRuns(s) == CollapseRuns(s, FALSE)

\* xs[-k:] for k >= 0: the last k elements, and the whole list when k = 0 or
\* k exceeds the length.
SliceLast(xs, k) ==
    IF k = 0 THEN xs ELSE SubSeq(xs, Max2(Len(xs) - k + 1, 1), Len(xs))

\* xs[:k] for k >= 0.
SliceFirst(xs, k) == SubSeq(xs, 1, Min2(k, Len(xs)))

\* xs[k:] for k >= 0.
SliceFrom(xs, k) == SubSeq(xs, k + 1, Len(xs))

(***************************************************************************)
(* Utility functions of raspberry-pi-5/transcribe.py (the same text is in  *)
(* raspberry-pi-5/transcribe-halo.py)                                      *)
(***************************************************************************)

\* threshold=0.7, kept as the fraction ThresholdNum / ThresholdDen.  The
\* code compares the double matching_words / len(new_words) with the double
\* 0.7; for word counts below 2^50 that comparison agrees with the exact
\* one, m/n > 7/10, because a quotient other than 7/10 is at least 1/(10n)
\* away from it.
ThresholdNum == 7

ThresholdDen == 10

\* len(new_words) < 3
MinRepetitionWords == 3

\* min(len(prev_words), 10)
RepetitionWindow == 10

IsRepetition_GE(new_text, previous_text) ==
    IF previous_text = <<>> \/ new_text = <<>> THEN FALSE
    ELSE LET new_words == Split(Lower(new_text))
             prev_words == Split(Lower(previous_text))
         IN IF Len(new_words) < MinRepetitionWords THEN FALSE
            ELSE LET check_length == Min2(Len(prev_words), RepetitionWindow)
                     prev_end == Join(SliceLast(prev_words, check_length))
                     window == Split(prev_end)
                     matching_words ==
                         Cardinality({i \in 1..Len(new_words) :
                                         new_words[i] \in Range(window)})
                 IN matching_words * ThresholdDen >= ThresholdNum * Len(new_words)

IsRepetition_NoMinimum(new_text, previous_text) ==
    IF previous_text = <<>> \/ new_text = <<>> THEN FALSE
    ELSE LET new_words == Split(Lower(new_text))
             prev_words == Split(Lower(previous_text))
             check_length == Min2(Len(prev_words), RepetitionWindow)
             prev_end == Join(SliceLast(prev_words, check_length))
             window == Split(prev_end)
             matching_words ==
                 Cardinality({i \in 1..Len(new_words) :
                                 new_words[i] \in Range(window)})
         IN matching_words * ThresholdDen > ThresholdNum * Len(new_words)

IsRepetition_FourWords(new_text, previous_text) ==
    IF previous_text = <<>> \/ new_text = <<>> THEN FALSE
    ELSE LET new_words == Split(Lower(new_text))
             prev_words == Split(Lower(previous_text))
         IN IF Len(new_words) < MinRepetitionWords + 1 THEN FALSE
            ELSE LET check_length == Min2(Len(prev_words), RepetitionWindow)
                     prev_end == Join(SliceLast(prev_words, check_length))
                     window == Split(prev_end)
                     matching_words ==
                         Cardinality({i \in 1..Len(new_words) :
                                         new_words[i] \in Range(window)})
                 IN matching_words * ThresholdDen > ThresholdNum * Len(new_words)

IsRepetition(new_text, previous_text) ==
    IF previous_text = <<>> \/ new_text = <<>> THEN FALSE
    ELSE LET new_words == Split(Lower(new_text))
             prev_words == Split(Lower(previous_text))
         IN IF Len(new_words) < MinRepetitionWords THEN FALSE
            ELSE LET check_length == Min2(Len(prev_words), RepetitionWindow)
                     prev_end == Join(SliceLast(prev_words, check_length))
                     window == Split(prev_end)
                     matching_words ==
                         Cardinality({i \in 1..Len(new_words) :
                                         new_words[i] \in Range(window)})
                 IN matching_words * ThresholdDen > ThresholdNum * Len(new_words)

RemoveOverlap_Shortest(new_text, previous_words, overlap_words) ==
    IF previous_words = <<>> \/ new_text = <<>> THEN new_text
    ELSE LET new_words == Split(new_text)
             max_check == Min2(Min2(Len(new_words), Len(previous_words)), overlap_words)
             hits == {i \in 1..max_check :
                         SliceLast(previous_words, i) = SliceFirst(new_words, i)}
             overlap_count ==
                 IF hits = {} THEN 0
                 ELSE CHOOSE i \in hits : \A j \in hits : i <= j
         IN Join(IF overlap_count > 0 THEN SliceFrom(new_words, overlap_count)
                 ELSE new_words)

RemoveOverlap_IgnoreCase(new_text, previous_words, overlap_words) ==
    IF previous_words = <<>> \/ new_text = <<>> THEN new_text
    ELSE LET new_words == Split(new_text)
             max_check == Min2(Min2(Len(new_words), Len(previous_words)), overlap_words)
             lowered(ws) == [k \in 1..Len(ws) |-> Lower(ws[k])]
             hits == {i \in 1..max_check :
                         lowered(SliceLast(previous_words, i))
                            = lowered(SliceFirst(new_words, i))}
             overlap_count ==
                 IF hits = {} THEN 0
                 ELSE CHOOSE i \in hits : \A j \in hits : j <= i
         IN Join(IF overlap_count > 0 THEN SliceFrom(new_words, overlap_count)
                 ELSE new_words)

\* The loop "for i in range(max_check, 0, -1)" stops at the first i, from
\* the largest down, whose slices agree: the largest element of hits.
RemoveOverlap(new_text, previous_words, overlap_words) ==
    IF previous_words = <<>> \/ new_text = <<>> THEN new_text
    ELSE LET new_words == Split(new_text)
             max_check == Min2(Min2(Len(new_words), Len(previous_words)), overlap_words)
             hits == {i \in 1..max_check :
                         SliceLast(previous_words, i) = SliceFirst(new_words, i)}
             overlap_count ==
                 IF hits = {} THEN 0
                 ELSE CHOOSE i \in hits : \A j \in hits : j <= i
         IN Join(IF overlap_count > 0 THEN SliceFrom(new_words, overlap_count)
                 ELSE new_words)

\* Whether is_repetition ends with an exception. On strings its only
\* operation that can raise is the division by len(new_words), evaluated
\* only behind "if new_words": ZeroDivisionError for a divisor of 0.
IsRepetitionRaises(new_text, previous_text) ==
    IF previous_text = <<>> \/ new_text = <<>> THEN FALSE
    ELSE LET new_words == Split(Lower(new_text))
         IN IF Len(new_words) < MinRepetitionWords THEN FALSE
            ELSE new_words # <<>> /\ Len(new_words) = 0

\* Whether remove_overlap ends with an exception. It only calls split, min,
\* range, join and takes slices, which clamp their bounds: none of them
\* raises on a string, a list of strings and an integer.
RemoveOverlapRaises(new_text, previous_words, overlap_words) == FALSE

NormalizeWhitespace_NoStrip(text) == ReSubBlankRuns(text)

\* normalize_whitespace(text)
NormalizeWhitespace(text) == Strip(ReSubBlankRuns(text))

(***************************************************************************)
(* The overlap-trim stitcher of run_transcription                          *)
(* (raspberry-pi-5/transcribe.py)                                          *)
(***************************************************************************)

\* TranscriptionConfig: self.min_words = 1
MinWords == 1

\* TranscriptionConfig: self.overlap_words = 5
OverlapWords == 5

\* TranscriptionConfig: self.max_context_chunks = 4 (MAX_CONTEXT_CHUNKS = 4 in
\* transcribe.py)
MaxContextChunks == 4

AppendContext_NoEvict(context_buffer, text) == Append(context_buffer, text)

AppendContext_PopNewest(context_buffer, text) ==
    LET appended == Append(context_buffer, text)
    IN IF Len(appended) > MaxContextChunks
       THEN SubSeq(appended, 1, Len(appended) - 1)
       ELSE appended

\* context_buffer.append(text), then pop(0) when the list got longer than
\* max_context_chunks.
AppendContext(context_buffer, text) ==
    LET appended == Append(context_buffer, text)
    IN IF Len(appended) > MaxContextChunks THEN Tail(appended) ELSE appended

\* The stitcher state is the record st of the loop's local variables
\* context_buffer, first_output, last_text, last_words and total_words, with
\* printed, what the iteration wrote to the transcript (<<>>: nothing).

\* "continue" of the min_words check: nothing printed, nothing assigned.
DiscardShort(st, text) == [st EXCEPT !.printed = <<>>]

\* "continue" of the is_repetition check.
DiscardRepetition_Remember(st, text) ==
    [st EXCEPT !.printed = <<>>, !.last_text = text, !.last_words = Split(text)]

DiscardRepetition(st, text) == [st EXCEPT !.printed = <<>>]

\* deduplicated_text.strip() is empty: the block of the "if" is skipped.
DiscardAllOverlap_Remember(st, text) ==
    [st EXCEPT !.printed = <<>>, !.last_text = text, !.last_words = Split(text)]

DiscardAllOverlap(st, text) == [st EXCEPT !.printed = <<>>]

AcceptChunk_Trimmed(st, text, deduplicated_text) ==
    [context_buffer |-> AppendContext(st.context_buffer, deduplicated_text),
     first_output |-> FALSE,
     last_text |-> deduplicated_text,
     last_words |-> Split(deduplicated_text),
     total_words |-> st.total_words + Len(Split(deduplicated_text)),
     printed |-> IF ~st.first_output
                 THEN <<" ">> \o deduplicated_text
                 ELSE deduplicated_text]

AcceptChunk_FirstStays(st, text, deduplicated_text) ==
    [context_buffer |-> AppendContext(st.context_buffer, text),
     first_output |-> st.first_output,
     last_text |-> text,
     last_words |-> Split(text),
     total_words |-> st.total_words + Len(Split(deduplicated_text)),
     printed |-> IF ~st.first_output
                 THEN <<" ">> \o deduplicated_text
                 ELSE deduplicated_text]

AcceptChunk_CountsAll(st, text, deduplicated_text) ==
    [context_buffer |-> AppendContext(st.context_buffer, text),
     first_output |-> FALSE,
     last_text |-> text,
     last_words |-> Split(text),
     total_words |-> st.total_words + Len(Split(text)),
     printed |-> IF ~st.first_output
                 THEN <<" ">> \o deduplicated_text
                 ELSE deduplicated_text]

\* The block of "if deduplicated_text.strip():".
AcceptChunk(st, text, deduplicated_text) ==
    [context_buffer |-> AppendContext(st.context_buffer, text),
     first_output |-> FALSE,
     last_text |-> text,
     last_words |-> Split(text),
     total_words |-> st.total_words + Len(Split(deduplicated_text)),
     printed |-> IF ~st.first_output
                 THEN <<" ">> \o deduplicated_text
                 ELSE deduplicated_text]

SkipEmpty_Unguarded(st, text) == AcceptChunk(st, text, text)

\* "if text:" is false: the iteration goes straight to the cleanup.
SkipEmpty(st, text) == [st EXCEPT !.printed = <<>>]

\* The validation checks and the display of one iteration, on the normalized
\* text of the chunk.
StitchOverlapTrim(st, text) ==
    IF text = <<>> THEN SkipEmpty(st, text)
    ELSE IF Len(Split(text)) < MinWords THEN DiscardShort(st, text)
    ELSE IF IsRepetition(text, st.last_text) THEN DiscardRepetition(st, text)
    ELSE LET deduplicated_text == RemoveOverlap(text, st.last_words, OverlapWords)
         IN IF Strip(deduplicated_text) # <<>>
            THEN AcceptChunk(st, text, deduplicated_text)
            ELSE DiscardAllOverlap(st, text)

(***************************************************************************)
(* The loop of transcribe.py: context buffer only                          *)
(***************************************************************************)

\* The block of "if text:" of the main loop.
StitchSimple(st, text) ==
    IF text # <<>>
    THEN [st EXCEPT !.context_buffer = AppendContext(st.context_buffer, text),
                    !.first_output = FALSE,
                    !.printed = IF ~st.first_output THEN <<" ">> \o text ELSE text]
    ELSE [st EXCEPT !.printed = <<>>]

(***************************************************************************)
(* ContextTracker of transcribe-halo.py                                    *)
(***************************************************************************)

TerminalPunctuation == {".", "!", "?"}

Ellipsis == <<".", ".", ".">>

\* text.strip() and text.strip()[-1] in terminal_punctuation
HasTerminal(text) ==
    LET stripped == Strip(text)
    IN stripped # <<>> /\ stripped[Len(stripped)] \in TerminalPunctuation

ProcessTranscription_KeepMarker(incomplete_buffer, text) ==
    IF text = <<>>
    THEN [incomplete_buffer |-> incomplete_buffer,
          display_text |-> <<>>, is_continuation |-> FALSE]
    ELSE LET full_text == IF incomplete_buffer # <<>>
                          THEN incomplete_buffer \o <<" ">> \o text
                          ELSE text
         IN IF HasTerminal(text)
            THEN [incomplete_buffer |-> <<>>,
                  display_text |-> full_text,
                  is_continuation |-> incomplete_buffer # <<>>]
            ELSE [incomplete_buffer |-> full_text \o Ellipsis,
                  display_text |-> full_text \o Ellipsis,
                  is_continuation |-> incomplete_buffer # <<>>]

ProcessTranscription_DropPrefix(incomplete_buffer, text) ==
    IF text = <<>>
    THEN [incomplete_buffer |-> incomplete_buffer,
          display_text |-> <<>>, is_continuation |-> FALSE]
    ELSE LET full_text == IF incomplete_buffer # <<>>
                          THEN incomplete_buffer \o <<" ">> \o text
                          ELSE text
         IN IF HasTerminal(text)
            THEN [incomplete_buffer |-> <<>>,
                  display_text |-> text,
                  is_continuation |-> incomplete_buffer # <<>>]
            ELSE [incomplete_buffer |-> full_text,
                  display_text |-> full_text \o Ellipsis,
                  is_continuation |-> incomplete_buffer # <<>>]

ProcessTranscription_NoSeparator(incomplete_buffer, text) ==
    IF text = <<>>
    THEN [incomplete_buffer |-> incomplete_buffer,
          display_text |-> <<>>, is_continuation |-> FALSE]
    ELSE LET full_text == incomplete_buffer \o text
         IN IF HasTerminal(text)
            THEN [incomplete_buffer |-> <<>>,
                  display_text |-> full_text,
                  is_continuation |-> incomplete_buffer # <<>>]
            ELSE [incomplete_buffer |-> full_text,
                  display_text |-> full_text \o Ellipsis,
                  is_continuation |-> incomplete_buffer # <<>>]

ProcessTranscription_ContinuesAfter(incomplete_buffer, text) ==
    IF text = <<>>
    THEN [incomplete_buffer |-> incomplete_buffer,
          display_text |-> <<>>, is_continuation |-> FALSE]
    ELSE LET full_text == IF incomplete_buffer # <<>>
                          THEN incomplete_buffer \o <<" ">> \o text
                          ELSE text
         IN IF HasTerminal(text)
            THEN [incomplete_buffer |-> <<>>,
                  display_text |-> full_text,
                  is_continuation |-> FALSE]
            ELSE [incomplete_buffer |-> full_text,
                  display_text |-> full_text \o Ellipsis,
                  is_continuation |-> TRUE]

ProcessTranscription_KeepBuffer(incomplete_buffer, text) ==
    IF text = <<>>
    THEN [incomplete_buffer |-> incomplete_buffer,
          display_text |-> <<>>, is_continuation |-> FALSE]
    ELSE LET full_text == IF incomplete_buffer # <<>>
                          THEN incomplete_buffer \o <<" ">> \o text
                          ELSE text
         IN IF HasTerminal(text)
            THEN [incomplete_buffer |-> full_text,
                  display_text |-> full_text,
                  is_continuation |-> incomplete_buffer # <<>>]
            ELSE [incomplete_buffer |-> full_text,
                  display_text |-> full_text \o Ellipsis,
                  is_continuation |-> incomplete_buffer # <<>>]

ProcessTranscription_ClearOnEmpty(incomplete_buffer, text) ==
    IF text = <<>>
    THEN [incomplete_buffer |-> <<>>,
          display_text |-> <<>>, is_continuation |-> FALSE]
    ELSE LET full_text == IF incomplete_buffer # <<>>
                          THEN incomplete_buffer \o <<" ">> \o text
                          ELSE text
         IN IF HasTerminal(text)
            THEN [incomplete_buffer |-> <<>>,
                  display_text |-> full_text,
                  is_continuation |-> incomplete_buffer # <<>>]
            ELSE [incomplete_buffer |-> full_text,
                  display_text |-> full_text \o Ellipsis,
                  is_continuation |-> incomplete_buffer # <<>>]

\* ContextTracker.process_transcription(text): the new incomplete_buffer and
\* the returned pair.
ProcessTranscription(incomplete_buffer, text) ==
    IF text = <<>>
    THEN [incomplete_buffer |-> incomplete_buffer,
          display_text |-> <<>>, is_continuation |-> FALSE]
    ELSE LET full_text == IF incomplete_buffer # <<>>
                          THEN incomplete_buffer \o <<" ">> \o text
                          ELSE text
         IN IF HasTerminal(text)
            THEN [incomplete_buffer |-> <<>>,
                  display_text |-> full_text,
                  is_continuation |-> incomplete_buffer # <<>>]
            ELSE [incomplete_buffer |-> full_text,
                  display_text |-> full_text \o Ellipsis,
                  is_continuation |-> incomplete_buffer # <<>>]

ProcessTranscriptionRaises_Unguarded(incomplete_buffer, text) ==
    IF text = <<>> THEN FALSE
    ELSE Len(Strip(text)) = 0

\* Whether process_transcription ends with an exception. On strings its only
\* operation that can raise is text.strip()[-1], evaluated only behind
\* "text.strip() and": IndexError for an empty string.
ProcessTranscriptionRaises(incomplete_buffer, text) ==
    IF text = <<>> THEN FALSE
    ELSE LET stripped == Strip(text)
         IN stripped # <<>> /\ Len(stripped) = 0

\* format_transcription(text), on the text postprocess_text returned.
FormatTranscription(text) ==
    IF text = <<>> THEN <<>> ELSE Strip(Join(Split(text)))

(***************************************************************************)
(* Calls of the utility functions on arguments drawn from bounded sets     *)
(***************************************************************************)

\* A call of a utility function: its name, its arguments, whether it has
\* returned, what, and whether it ended with an exception instead.
VARIABLES fn, args, returned, ret, raised

\* A session of one of the scripts: which script, the position in its loop,
\* segment_num (recording_num in transcribe-halo.py), the mel spectrograms of
\* the recording still to be transcribed, and the text of the chunk last
\* transcribed.
VARIABLES script, pc, segment_num, mels_left, text

\* The stitcher's variables, and what the last stitched chunk printed.
VARIABLES context_buffer, first_output, last_text, last_words, total_words, printed

\* ContextTracker.incomplete_buffer and the pair process_transcription
\* returned last.
VARIABLES incomplete_buffer, display_text, is_continuation

\* The process of a Hailo script: the global pipeline (None or the
\* HailoWhisperPipeline), how often pipeline.stop() was called, and whether
\* signal_handler is installed for SIGINT.
VARIABLES pipeline, pipeline_stops, handler

\* transcribe-halo.py: the global running, which signal_handler clears.
VARIABLE running

\* What the last recording gave: "ok", or how it failed.
VARIABLE recording

\* History: the full texts of the chunks that produced output, in order.
VARIABLE accepted

\* History: the texts process_transcription was called with since the last
\* one that ended a sentence, that one included.
VARIABLE sentence

\* What has_sufficient_audio said of the last chunk it was given: "ok" or
\* "low".
VARIABLE energy

\* transcribe.py: the initial_prompt model.transcribe was given last.
VARIABLE initial_prompt

\* The configuration workflow: the menu shown, what the last menu returned,
\* the configuration object, and how many of them were constructed.
VARIABLES menu, choice, config, rounds

\* A ContextTracker used on its own: how many of its methods were called,
\* whether no text was processed since __init__ or the last reset, and the
\* buffer the last reset threw away.
VARIABLES calls, fresh, dropped

pureVars == <<fn, args, returned, ret, raised>>

loopVars == <<script, pc, segment_num, mels_left, text>>

stitchVars == <<context_buffer, first_output, last_text, last_words, total_words, printed>>

trackerVars == <<incomplete_buffer, display_text, is_continuation>>

processVars == <<pipeline, pipeline_stops, handler, running>>

historyVars == <<accepted, sentence>>

sessionVars == <<loopVars, stitchVars, trackerVars, processVars, recording, historyVars,
                 energy, initial_prompt>>

configVars == <<menu, choice, config, rounds>>

callVars == <<calls, fresh, dropped>>

vars == <<pureVars, sessionVars, configVars, callVars>>

\* Longest new text, in words, handed to is_repetition.
MaxNewWords == 10

\* Longest run of filler words in the previous text handed to is_repetition.
MaxPrevRun == 10

\* Longest word list handed to remove_overlap.
MaxWords == 3

\* Largest overlap_words handed to remove_overlap.
MaxOverlapWords == 3

\* is_repetition: k copies of x followed by l copies of "c", and one blank.
RepNewTexts ==
    {Join(Repeat(x, k) \o Repeat(<<"c">>, l)) :
        <<x, k, l>> \in {t \in {<<"a">>, <<"A">>} \X (0..MaxNewWords) \X (0..MaxNewWords) :
                            t[2] + t[3] <= MaxNewWords}}
    \cup {<<" ">>}

\* is_repetition: i copies of "c", j copies of "b", m copies of u.
RepPrevTexts ==
    {Join(Repeat(<<"c">>, i) \o Repeat(<<"b">>, j) \o Repeat(u, m)) :
        <<u, i, j, m>> \in {<<"a">>, <<"A">>} \X (0..2) \X (0..MaxPrevRun) \X (0..1)}
    \cup {<<" ">>}

Vocabulary == {<<"a">>, <<"A">>, <<"a", "b">>}

RECURSIVE WordLists(_)
WordLists(n) ==
    IF n = 0 THEN {<<>>}
    ELSE WordLists(n - 1)
         \cup {Append(ws, w) : <<ws, w>> \in
                  {p \in WordLists(n - 1) \X Vocabulary : Len(p[1]) = n - 1}}

\* remove_overlap: word lists joined by one space, or by two.
OverlapNewTexts ==
    {JoinWith(sep, ws) : <<sep, ws>> \in {<<" ">>, <<" ", " ">>} \X WordLists(MaxWords)}

\* process_transcription: texts with and without terminal punctuation,
\* blank ones, and the buffers they meet.
TrackerTexts ==
    { <<>>,
      <<" ">>,
      <<"a">>,
      <<"a", ".">>,
      <<"a", ".", " ">>,
      <<".", ".", ".">>,
      <<"a", " ", "b">> }

TrackerBuffers == { <<>>, <<" ">>, <<"a">>, <<"a", " ", "b">> }

\* Longest text handed to normalize_whitespace.
MaxTextLen == 5

\* normalize_whitespace: every text of a letter, spaces, tabs and newlines.
RECURSIVE TextsUpTo(_)
TextsUpTo(n) ==
    IF n = 0 THEN {<<>>}
    ELSE TextsUpTo(n - 1)
         \cup {Append(t, c) : <<t, c>> \in
                  {p \in TextsUpTo(n - 1) \X {"a", " ", "\t", "\n"} : Len(p[1]) = n - 1}}

\* Python's None where a text is expected.
None == <<"None">>

\* No menu choice yet; TerminalMenu.show() returns None when the menu is left
\* with Escape or q.
NoChoice == -1

\* Outside the configuration workflow and outside a tracker used on its own.
NotConfiguring ==
    /\ menu = "none"
    /\ choice = NoChoice
    /\ config = [model |-> "none", chunk_duration |-> 0]
    /\ rounds = 0
    /\ calls = 0
    /\ fresh = TRUE
    /\ dropped = <<>>

\* The variables of a session before its loop starts (run_transcription,
\* ContextTracker.__init__, the module level of transcribe.py).
SessionStart ==
    /\ segment_num = 0
    /\ mels_left = 0
    /\ text = <<>>
    /\ context_buffer = <<>>
    /\ first_output = TRUE
    /\ last_text = <<>>
    /\ last_words = <<>>
    /\ total_words = 0
    /\ printed = <<>>
    /\ incomplete_buffer = <<>>
    /\ display_text = <<>>
    /\ is_continuation = FALSE
    /\ pipeline = "None"
    /\ pipeline_stops = 0
    /\ handler = FALSE
    /\ running = TRUE
    /\ recording = "none"
    /\ accepted = <<>>
    /\ sentence = <<>>
    /\ energy = "none"
    /\ initial_prompt = None

InitPure ==
    /\ script = "none"
    /\ pc = "record"
    /\ SessionStart
    /\ NotConfiguring
    /\ returned = FALSE
    /\ raised = FALSE
    /\ \/ /\ fn = "is_repetition"
          /\ args \in [new_text : RepNewTexts, previous_text : RepPrevTexts]
          /\ ret = [is_repetition |-> FALSE]
       \/ /\ fn = "remove_overlap"
          /\ args \in [new_text : OverlapNewTexts,
                       previous_words : WordLists(MaxWords),
                       overlap_words : (-1)..MaxOverlapWords]
          /\ ret = [remove_overlap |-> <<>>]
       \/ /\ fn = "process_transcription"
          /\ args \in [incomplete_buffer : TrackerBuffers, text : TrackerTexts]
          /\ ret = [incomplete_buffer |-> args.incomplete_buffer,
                    display_text |-> <<>>, is_continuation |-> FALSE]
       \/ /\ fn = "normalize_whitespace"
          /\ args \in [text : TextsUpTo(MaxTextLen)]
          /\ ret = [normalize_whitespace |-> <<>>]

\* A call either raises, and returns nothing, or returns its value.
CallIsRepetition ==
    /\ fn = "is_repetition" /\ ~returned
    /\ raised' = IsRepetitionRaises(args.new_text, args.previous_text)
    /\ ret' = IF raised' THEN ret
              ELSE [is_repetition |-> IsRepetition(args.new_text, args.previous_text)]
    /\ returned' = TRUE
    /\ UNCHANGED <<fn, args, sessionVars, configVars, callVars>>

CallRemoveOverlap ==
    /\ fn = "remove_overlap" /\ ~returned
    /\ raised' = RemoveOverlapRaises(args.new_text, args.previous_words,
                                     args.overlap_words)
    /\ ret' = IF raised' THEN ret
              ELSE [remove_overlap |->
                       RemoveOverlap(args.new_text, args.previous_words,
                                     args.overlap_words)]
    /\ returned' = TRUE
    /\ UNCHANGED <<fn, args, sessionVars, configVars, callVars>>

\* The tracker's buffer after the call is the field incomplete_buffer of ret.
CallProcessTranscription ==
    /\ fn = "process_transcription" /\ ~returned
    /\ raised' = ProcessTranscriptionRaises(args.incomplete_buffer, args.text)
    /\ ret' = IF raised' THEN ret
              ELSE ProcessTranscription(args.incomplete_buffer, args.text)
    /\ returned' = TRUE
    /\ UNCHANGED <<fn, args, sessionVars, configVars, callVars>>

CallNormalizeWhitespace ==
    /\ fn = "normalize_whitespace" /\ ~returned
    /\ raised' = FALSE
    /\ ret' = [normalize_whitespace |-> NormalizeWhitespace(args.text)]
    /\ returned' = TRUE
    /\ UNCHANGED <<fn, args, sessionVars, configVars, callVars>>

NextPure ==
    \/ CallIsRepetition
    \/ CallRemoveOverlap
    \/ CallProcessTranscription
    \/ CallNormalizeWhitespace

SpecPure == InitPure /\ [][NextPure]_vars

(***************************************************************************)
(* A ContextTracker and the calls of its methods                           *)
(***************************************************************************)

\* Most calls of the tracker's methods.
MaxCalls == 4

Reset_KeepsBuffer(buffer) == buffer

\* ContextTracker.reset(): self.incomplete_buffer = "".
Reset(buffer) == <<>>

\* The session has just started: the stitcher's variables and the tracker are
\* as the scripts construct them.
InitTracker ==
    /\ script \in {"raspberry-pi-5/transcribe.py", "transcribe.py", "transcribe-halo.py",
                   "raspberry-pi-5/transcribe-halo.py"}
    /\ pc = "record"
    /\ SessionStart
    /\ NotConfiguring
    /\ fn = "none" /\ args = <<>> /\ returned = FALSE /\ ret = <<>> /\ raised = FALSE

\* context_tracker.process_transcription(text)
TrackerProcessTranscription ==
    /\ calls < MaxCalls
    /\ calls' = calls + 1
    /\ \E t \in TrackerTexts :
           LET r == ProcessTranscription(incomplete_buffer, t)
           IN /\ text' = t
              /\ incomplete_buffer' = r.incomplete_buffer
              /\ display_text' = r.display_text
              /\ is_continuation' = r.is_continuation
              /\ fresh' = (fresh /\ t = <<>>)
    /\ UNCHANGED <<script, pc, segment_num, mels_left, stitchVars, processVars,
                   recording, historyVars, energy, initial_prompt, dropped,
                   pureVars, configVars>>

\* context_tracker.reset()
TrackerReset ==
    /\ calls < MaxCalls
    /\ calls' = calls + 1
    /\ incomplete_buffer' = Reset(incomplete_buffer)
    /\ dropped' = incomplete_buffer
    /\ fresh' = TRUE
    /\ UNCHANGED <<script, pc, segment_num, mels_left, text, stitchVars,
                   display_text, is_continuation, processVars, recording,
                   historyVars, energy, initial_prompt, pureVars, configVars>>

NextTracker == TrackerProcessTranscription \/ TrackerReset

SpecTracker == InitTracker /\ [][NextTracker]_vars

(***************************************************************************)
(* Sessions: one of the scripts runs its loop                              *)
(***************************************************************************)

\* Most iterations of a session.
MaxSegments == 6

\* Most recordings of a transcribe-halo.py session.
MaxRecordings == 3

\* Most mel spectrograms preprocess() makes of one recording.
MaxMels == 2

\* What the Whisper model returns for a chunk, its segments joined by ' '.
RawTexts ==
    { <<>>,
      <<" ", "a", " ", "b", " ", " ", "c">>,
      <<"b", " ", "c", " ", "d">>,
      <<"B", " ", "c", " ", "d">>,
      <<"c", "\t", "d">>,
      <<"c", "d">>,
      <<"c">> }

\* The same for transcribe.py, which only strips the text.
SimpleRawTexts ==
    { <<>>,
      <<" ", "a", " ", "b", " ", " ", "c">>,
      <<"c", "\t", "d">>,
      <<"c">> }

\* What the Hailo pipeline returns for a mel spectrogram, after
\* postprocess_text.
HailoTexts ==
    { <<>>,
      <<" ">>,
      <<" ", "a", " ", " ", "b">>,
      <<"c", ".", " ", "d">>,
      <<"b", " ", "c", ".">>,
      <<"d", "!">>,
      <<"a", "?">> }

\* Most iterations of a raspberry-pi-5/transcribe-halo.py session.
MaxHailoSegments == 3

\* The cleaned transcriptions of the mel spectrograms of one recording
\* (text_chunks).
TextChunkLists ==
    { <<>>,
      << <<"a">>, <<"b", " ", "c">> >>,
      << <<"b", " ", "c", " ", "d">> >>,
      << <<"c", " ", " ", "d">> >> }

Scripts ==
    {"raspberry-pi-5/transcribe.py", "transcribe.py", "transcribe-halo.py",
     "raspberry-pi-5/transcribe-halo.py"}

OverlapTrimScript == "raspberry-pi-5/transcribe.py"

SimpleScript == "transcribe.py"

HailoScript == "transcribe-halo.py"

HailoOverlapTrimScript == "raspberry-pi-5/transcribe-halo.py"

Init ==
    /\ script \in Scripts
    /\ pc = IF script \in {HailoScript, HailoOverlapTrimScript} THEN "load" ELSE "record"
    /\ SessionStart
    /\ NotConfiguring
    /\ fn = "none" /\ args = <<>> /\ returned = FALSE /\ ret = <<>> /\ raised = FALSE

\* The last element of a list, <<>> for the empty list.
LastOf(seq) == IF seq = <<>> THEN <<>> ELSE seq[Len(seq)]

\* The chunk's last character is '.', '!' or '?'.
EndsSentence(chunk) ==
    chunk # <<>> /\ chunk[Len(chunk)] \in {".", "!", "?"}

CurrentStitcher ==
    [context_buffer |-> context_buffer, first_output |-> first_output,
     last_text |-> last_text, last_words |-> last_words,
     total_words |-> total_words, printed |-> printed]

\* The stitcher's variables take the values of the record new, and a chunk
\* that printed something joins the history.
StitcherBecomes(new) ==
    /\ context_buffer' = new.context_buffer
    /\ first_output' = new.first_output
    /\ last_text' = new.last_text
    /\ last_words' = new.last_words
    /\ total_words' = new.total_words
    /\ printed' = new.printed
    /\ accepted' = IF new.printed # <<>> THEN Append(accepted, text) ELSE accepted

---------------------------------------------------------------------------
\* raspberry-pi-5/transcribe.py, run_transcription

RecordSegment_Early ==
    /\ script = OverlapTrimScript /\ pc \in {"record", "stitch"}
    /\ segment_num < MaxSegments
    /\ segment_num' = segment_num + 1
    /\ \E outcome \in {"ok", "failed", "missing", "empty", "unreadable"} :
           /\ recording' = outcome
           /\ pc' = IF outcome = "ok" THEN "energy" ELSE "exited"
    /\ UNCHANGED <<script, mels_left, text, stitchVars, trackerVars, processVars,
                   historyVars, pureVars, energy, initial_prompt,
                   configVars, callVars>>

RecordSegment_Retry ==
    /\ script = OverlapTrimScript /\ pc = "record"
    /\ segment_num < MaxSegments
    /\ segment_num' = segment_num + 1
    /\ \E outcome \in {"ok", "failed", "missing", "empty", "unreadable"} :
           /\ recording' = outcome
           /\ pc' = IF outcome = "ok" THEN "energy" ELSE "record"
    /\ UNCHANGED <<script, mels_left, text, stitchVars, trackerVars, processVars,
                   historyVars, pureVars, energy, initial_prompt,
                   configVars, callVars>>

\* segment_num += 1 and arecord; a failed command, a missing, empty or
\* unreadable file end the process with sys.exit(1).
RecordSegment ==
    /\ script = OverlapTrimScript /\ pc = "record"
    /\ segment_num < MaxSegments
    /\ segment_num' = segment_num + 1
    /\ \E outcome \in {"ok", "failed", "missing", "empty", "unreadable"} :
           /\ recording' = outcome
           /\ pc' = IF outcome = "ok" THEN "energy" ELSE "exited"
    /\ UNCHANGED <<script, mels_left, text, stitchVars, trackerVars, processVars,
                   historyVars, pureVars, energy, initial_prompt,
                   configVars, callVars>>

CheckEnergy_TranscribesAnyway ==
    /\ script = OverlapTrimScript /\ pc = "energy"
    /\ \E sufficient \in BOOLEAN :
           /\ energy' = IF sufficient THEN "ok" ELSE "low"
           /\ pc' = "transcribe"
    /\ UNCHANGED <<script, segment_num, mels_left, text, stitchVars, trackerVars,
                   processVars, recording, historyVars, pureVars, initial_prompt,
                   configVars, callVars>>

\* has_sufficient_audio: a chunk without energy is dropped with "continue".
CheckEnergy ==
    /\ script = OverlapTrimScript /\ pc = "energy"
    /\ \E sufficient \in BOOLEAN :
           /\ energy' = IF sufficient THEN "ok" ELSE "low"
           /\ pc' = IF sufficient THEN "transcribe" ELSE "record"
    /\ UNCHANGED <<script, segment_num, mels_left, text, stitchVars, trackerVars,
                   processVars, recording, historyVars, pureVars, initial_prompt,
                   configVars, callVars>>

\* model.transcribe, ' '.join(...).strip() and normalize_whitespace.
Transcribe ==
    /\ script = OverlapTrimScript /\ pc = "transcribe"
    /\ \E raw \in RawTexts : text' = NormalizeWhitespace(Strip(raw))
    /\ pc' = "stitch"
    /\ UNCHANGED <<script, segment_num, mels_left, stitchVars, trackerVars,
                   processVars, recording, historyVars, pureVars, energy, initial_prompt,
                   configVars, callVars>>

\* The validation checks, the display and the cleanup.
Stitch ==
    /\ script = OverlapTrimScript /\ pc = "stitch"
    /\ StitcherBecomes(StitchOverlapTrim(CurrentStitcher, text))
    /\ pc' = "record"
    /\ UNCHANGED <<script, segment_num, mels_left, text, trackerVars, processVars,
                   recording, sentence, pureVars, energy, initial_prompt,
                   configVars, callVars>>

\* KeyboardInterrupt: the statistics are printed and the process exits.
Interrupt ==
    /\ script = OverlapTrimScript /\ pc # "exited"
    /\ pc' = "exited"
    /\ UNCHANGED <<script, segment_num, mels_left, text, stitchVars, trackerVars,
                   processVars, recording, historyVars, pureVars, energy, initial_prompt,
                   configVars, callVars>>

---------------------------------------------------------------------------
\* transcribe.py, the loop at module level

InitialPrompt_NewestOnly(buffer) ==
    IF buffer = <<>> THEN None ELSE LastOf(buffer)

\* context = ' '.join(context_buffer[-MAX_CONTEXT_CHUNKS:]) and
\* initial_prompt=context if context else None.
InitialPrompt(buffer) ==
    LET context == JoinWith(<<" ">>, SliceLast(buffer, MaxContextChunks))
    IN IF context # <<>> THEN context ELSE None

\* segment_num += 1, arecord (its result is not looked at) and sf.read,
\* which raises when the file is missing or unreadable.
SimpleRecord ==
    /\ script = SimpleScript /\ pc = "record"
    /\ segment_num < MaxSegments
    /\ segment_num' = segment_num + 1
    /\ \E readable \in BOOLEAN :
           /\ recording' = IF readable THEN "ok" ELSE "unreadable"
           /\ pc' = IF readable THEN "transcribe" ELSE "exited"
    /\ UNCHANGED <<script, mels_left, text, stitchVars, trackerVars, processVars,
                   historyVars, pureVars, energy, initial_prompt,
                   configVars, callVars>>

\* The context is built, model.transcribe is given it as initial_prompt, and
\* ' '.join(...).strip().
SimpleTranscribe ==
    /\ script = SimpleScript /\ pc = "transcribe"
    /\ initial_prompt' = InitialPrompt(context_buffer)
    /\ \E raw \in SimpleRawTexts : text' = Strip(raw)
    /\ pc' = "stitch"
    /\ UNCHANGED <<script, segment_num, mels_left, stitchVars, trackerVars,
                   processVars, recording, historyVars, pureVars, energy,
                   configVars, callVars>>

\* "if text:" and the cleanup.
SimpleStitch ==
    /\ script = SimpleScript /\ pc = "stitch"
    /\ StitcherBecomes(StitchSimple(CurrentStitcher, text))
    /\ pc' = "record"
    /\ UNCHANGED <<script, segment_num, mels_left, text, trackerVars, processVars,
                   recording, sentence, pureVars, energy, initial_prompt,
                   configVars, callVars>>

\* KeyboardInterrupt.
SimpleInterrupt ==
    /\ script = SimpleScript /\ pc # "exited"
    /\ pc' = "exited"
    /\ UNCHANGED <<script, segment_num, mels_left, text, stitchVars, trackerVars,
                   processVars, recording, historyVars, pureVars, energy, initial_prompt,
                   configVars, callVars>>

---------------------------------------------------------------------------
\* transcribe-halo.py, main

\* "Initializing Hailo pipeline...": the global pipeline is assigned the new
\* HailoWhisperPipeline; a missing HEF file or an exception of the
\* constructor makes main return.
HailoCreatePipeline ==
    /\ script = HailoScript /\ pc = "load"
    /\ \E created \in BOOLEAN :
           /\ pipeline' = IF created THEN "HailoWhisperPipeline" ELSE pipeline
           /\ pc' = IF created THEN "banner" ELSE "exited"
    /\ UNCHANGED <<script, segment_num, mels_left, text, stitchVars, trackerVars,
                   pipeline_stops, handler, running, recording, historyVars,
                   pureVars, energy, initial_prompt,
                   configVars, callVars>>

\* "Pipeline initialized", the banner, then
\* signal.signal(signal.SIGINT, signal_handler) and the loop's variables.
HailoInstallHandler ==
    /\ script = HailoScript /\ pc = "banner"
    /\ handler' = TRUE
    /\ pc' = "record"
    /\ UNCHANGED <<script, segment_num, mels_left, text, stitchVars, trackerVars,
                   pipeline, pipeline_stops, running, recording, historyVars,
                   pureVars, energy, initial_prompt,
                   configVars, callVars>>

\* recording_num += 1 and record_audio, which returns None for a failed
\* command, a missing or empty file, a timeout or any other exception;
\* without a file the loop sleeps and continues.
HailoRecord ==
    /\ script = HailoScript /\ pc = "record"
    /\ running
    /\ segment_num < MaxRecordings
    /\ segment_num' = segment_num + 1
    /\ \E outcome \in {"ok", "failed", "timeout"} :
           /\ recording' = outcome
           /\ pc' = IF outcome = "ok" THEN "process" ELSE "record"
    /\ UNCHANGED <<script, mels_left, text, stitchVars, trackerVars, processVars,
                   historyVars, pureVars, energy, initial_prompt,
                   configVars, callVars>>

\* load_audio, improve_input_audio_quiet and preprocess: without a mel
\* spectrogram the loop continues, through the finally block.
HailoPreprocess ==
    /\ script = HailoScript /\ pc = "process"
    /\ \E n \in 0..MaxMels :
           /\ mels_left' = n
           /\ pc' = IF n = 0 THEN "cleanup" ELSE "transcribe"
    /\ UNCHANGED <<script, segment_num, text, stitchVars, trackerVars, processVars,
                   recording, historyVars, pureVars, energy, initial_prompt,
                   configVars, callVars>>

\* pipeline.send_data, get_transcription and format_transcription for the
\* next mel spectrogram.
HailoTranscribe ==
    /\ script = HailoScript /\ pc = "transcribe"
    /\ \E transcription \in HailoTexts : text' = FormatTranscription(transcription)
    /\ pc' = "stitch"
    /\ UNCHANGED <<script, segment_num, mels_left, stitchVars, trackerVars,
                   processVars, recording, historyVars, pureVars, energy, initial_prompt,
                   configVars, callVars>>

\* "if text:": context_tracker.process_transcription(text) and the print of
\* the display text; then the next mel spectrogram or the finally block.
HailoStitch ==
    /\ script = HailoScript /\ pc = "stitch"
    /\ IF text # <<>>
       THEN LET r == ProcessTranscription(incomplete_buffer, text)
            IN /\ incomplete_buffer' = r.incomplete_buffer
               /\ display_text' = r.display_text
               /\ is_continuation' = r.is_continuation
               /\ printed' = r.display_text
               /\ sentence' = IF sentence = <<>> \/ EndsSentence(LastOf(sentence))
                              THEN <<text>>
                              ELSE Append(sentence, text)
       ELSE /\ printed' = <<>>
            /\ UNCHANGED <<trackerVars, sentence>>
    /\ mels_left' = mels_left - 1
    /\ pc' = IF mels_left' = 0 THEN "cleanup" ELSE "transcribe"
    /\ UNCHANGED <<script, segment_num, text, context_buffer, first_output, last_text,
                   last_words, total_words, processVars, recording, accepted, pureVars, energy, initial_prompt,
                   configVars, callVars>>

\* An exception in the try block: "Processing error" and the finally block.
HailoProcessingError ==
    /\ script = HailoScript /\ pc \in {"process", "transcribe", "stitch"}
    /\ pc' = "cleanup"
    /\ mels_left' = 0
    /\ UNCHANGED <<script, segment_num, text, stitchVars, trackerVars, processVars,
                   recording, historyVars, pureVars, energy, initial_prompt,
                   configVars, callVars>>

\* The finally block: os.remove(audio_file) inside "try: ... except: pass",
\* then the head of the loop.
HailoCleanup ==
    /\ script = HailoScript /\ pc = "cleanup"
    /\ pc' = "record"
    /\ UNCHANGED <<script, segment_num, mels_left, text, stitchVars, trackerVars,
                   processVars, recording, historyVars, pureVars, energy, initial_prompt,
                   configVars, callVars>>

\* SIGINT once signal_handler is installed: running = False,
\* "if pipeline: pipeline.stop()" and sys.exit(0).  The handler runs between
\* two bytecodes of the main thread, and its SystemExit is raised there:
\* inside the finally block's "try: os.remove(audio_file)" the bare except
\* swallows it and the loop goes on to its head.
HailoSignal ==
    /\ script = HailoScript /\ pc # "exited"
    /\ handler
    /\ running' = FALSE
    /\ pipeline_stops' = IF pipeline # "None" THEN pipeline_stops + 1 ELSE pipeline_stops
    /\ \/ pc' = "exited"
       \/ pc = "cleanup" /\ pc' = "record"
    /\ UNCHANGED <<script, segment_num, mels_left, text, stitchVars, trackerVars,
                   pipeline, handler, recording, historyVars, pureVars, energy, initial_prompt,
                   configVars, callVars>>

\* "while running" is false: the cleanup after the loop,
\* "if pipeline: pipeline.stop()", and main returns.
HailoLoopEnd ==
    /\ script = HailoScript /\ pc = "record"
    /\ ~running
    /\ pipeline_stops' = IF pipeline # "None" THEN pipeline_stops + 1 ELSE pipeline_stops
    /\ pc' = "exited"
    /\ UNCHANGED <<script, segment_num, mels_left, text, stitchVars, trackerVars,
                   pipeline, handler, running, recording, historyVars, pureVars, energy, initial_prompt,
                   configVars, callVars>>

\* SIGINT before signal.signal was called: Python's default handler raises
\* KeyboardInterrupt, which "except Exception" does not catch, and the
\* process ends with the traceback.
HailoKeyboardInterrupt ==
    /\ script = HailoScript /\ pc # "exited"
    /\ ~handler
    /\ pc' = "exited"
    /\ UNCHANGED <<script, segment_num, mels_left, text, stitchVars, trackerVars,
                   processVars, recording, historyVars, pureVars, energy, initial_prompt,
                   configVars, callVars>>

---------------------------------------------------------------------------
\* raspberry-pi-5/transcribe-halo.py, run_transcription

\* HailoWhisperPipeline(...); an exception ends the process with sys.exit(1).
Pi5HailoCreatePipeline ==
    /\ script = HailoOverlapTrimScript /\ pc = "load"
    /\ \E created \in BOOLEAN :
           /\ pipeline' = IF created THEN "HailoWhisperPipeline" ELSE pipeline
           /\ pc' = IF created THEN "banner" ELSE "exited"
    /\ UNCHANGED <<script, segment_num, mels_left, text, stitchVars, trackerVars,
                   pipeline_stops, handler, running, recording, historyVars,
                   pureVars, energy, initial_prompt,
                   configVars, callVars>>

\* The banner and the loop's variables, up to the "try:" around the loop.
Pi5HailoEnterLoop ==
    /\ script = HailoOverlapTrimScript /\ pc = "banner"
    /\ pc' = "record"
    /\ UNCHANGED <<script, segment_num, mels_left, text, stitchVars, trackerVars,
                   processVars, recording, historyVars, pureVars, energy, initial_prompt,
                   configVars, callVars>>

\* segment_num += 1 and arecord; after a failed command, a missing or an
\* empty file, pipeline.stop() is called, and sys.exit(1) comes next.
Pi5HailoRecord ==
    /\ script = HailoOverlapTrimScript /\ pc = "record"
    /\ segment_num < MaxHailoSegments
    /\ segment_num' = segment_num + 1
    /\ \E outcome \in {"ok", "failed", "missing", "empty"} :
           /\ recording' = outcome
           /\ pc' = IF outcome = "ok" THEN "energy" ELSE "stopped"
           /\ pipeline_stops' = IF outcome = "ok" THEN pipeline_stops
                                 ELSE pipeline_stops + 1
    /\ UNCHANGED <<script, mels_left, text, stitchVars, trackerVars, pipeline,
                   handler, running, historyVars, pureVars, energy, initial_prompt,
                   configVars, callVars>>

\* sys.exit(1) after pipeline.stop().
Pi5HailoExit ==
    /\ script = HailoOverlapTrimScript /\ pc = "stopped"
    /\ pc' = "exited"
    /\ UNCHANGED <<script, segment_num, mels_left, text, stitchVars, trackerVars,
                   processVars, recording, historyVars, pureVars, energy, initial_prompt,
                   configVars, callVars>>

\* load_audio, whose empty array or exception makes the loop continue, the
\* gain, and has_sufficient_audio: a chunk without energy is dropped with
\* "continue".
Pi5HailoCheckEnergy ==
    /\ script = HailoOverlapTrimScript /\ pc = "energy"
    /\ \E loaded, sufficient \in BOOLEAN :
           /\ energy' = IF ~loaded THEN energy
                         ELSE IF sufficient THEN "ok" ELSE "low"
           /\ pc' = IF loaded /\ sufficient THEN "transcribe" ELSE "record"
    /\ UNCHANGED <<script, segment_num, mels_left, text, stitchVars, trackerVars,
                   processVars, recording, historyVars, pureVars, initial_prompt,
                   configVars, callVars>>

\* preprocess, the pipeline for each mel spectrogram, ' '.join(text_chunks)
\* and normalize_whitespace; without mel spectrograms, or after an exception,
\* the loop continues.
Pi5HailoTranscribe ==
    /\ script = HailoOverlapTrimScript /\ pc = "transcribe"
    /\ \/ /\ \E text_chunks \in TextChunkLists :
                 text' = NormalizeWhitespace(Join(text_chunks))
          /\ pc' = "stitch"
       \/ /\ text' = text
          /\ pc' = "record"
    /\ UNCHANGED <<script, segment_num, mels_left, stitchVars, trackerVars,
                   processVars, recording, historyVars, pureVars, energy, initial_prompt,
                   configVars, callVars>>

\* The validation checks, the display and the cleanup.
Pi5HailoStitch ==
    /\ script = HailoOverlapTrimScript /\ pc = "stitch"
    /\ StitcherBecomes(StitchOverlapTrim(CurrentStitcher, text))
    /\ pc' = "record"
    /\ UNCHANGED <<script, segment_num, mels_left, text, trackerVars, processVars,
                   recording, sentence, pureVars, energy, initial_prompt,
                   configVars, callVars>>

\* KeyboardInterrupt inside the "try:" around the loop: the statistics,
\* pipeline.stop() and sys.exit(0).  Between pipeline.stop() and sys.exit(1)
\* of a failed recording the loop is still inside that "try:".
Pi5HailoInterrupt ==
    /\ script = HailoOverlapTrimScript
    /\ pc \in {"record", "stopped", "energy", "transcribe", "stitch"}
    /\ pipeline_stops' = pipeline_stops + 1
    /\ pc' = "exited"
    /\ UNCHANGED <<script, segment_num, mels_left, text, stitchVars, trackerVars,
                   pipeline, handler, running, recording, historyVars,
                   pureVars, energy, initial_prompt,
                   configVars, callVars>>

\* KeyboardInterrupt before the "try:" around the loop: main catches it and
\* calls sys.exit(0).
Pi5HailoEarlyInterrupt ==
    /\ script = HailoOverlapTrimScript /\ pc \in {"load", "banner"}
    /\ pc' = "exited"
    /\ UNCHANGED <<script, segment_num, mels_left, text, stitchVars, trackerVars,
                   processVars, recording, historyVars, pureVars, energy, initial_prompt,
                   configVars, callVars>>

Next ==
    \/ RecordSegment
    \/ CheckEnergy
    \/ Transcribe
    \/ Stitch
    \/ Interrupt
    \/ SimpleRecord
    \/ SimpleTranscribe
    \/ SimpleStitch
    \/ SimpleInterrupt
    \/ HailoCreatePipeline
    \/ HailoInstallHandler
    \/ HailoRecord
    \/ HailoPreprocess
    \/ HailoTranscribe
    \/ HailoStitch
    \/ HailoProcessingError
    \/ HailoCleanup
    \/ HailoSignal
    \/ HailoLoopEnd
    \/ HailoKeyboardInterrupt
    \/ Pi5HailoCreatePipeline
    \/ Pi5HailoEnterLoop
    \/ Pi5HailoRecord
    \/ Pi5HailoExit
    \/ Pi5HailoCheckEnergy
    \/ Pi5HailoTranscribe
    \/ Pi5HailoStitch
    \/ Pi5HailoInterrupt
    \/ Pi5HailoEarlyInterrupt

Spec == Init /\ [][Next]_vars

(***************************************************************************)
(* The configuration workflow before a session                             *)
(***************************************************************************)

\* Most configuration objects one run of the workflow constructs.
MaxRounds == 3

\* The scripts with configuration menus.
ConfigScripts == {OverlapTrimScript, HailoOverlapTrimScript, HailoScript}

\* TranscriptionConfig(), HailoTranscriptionConfig() and Config(): the model
\* and the seconds of one chunk.  Config of transcribe-halo.py has no such
\* attribute, only the property.
DefaultConfig(scr) ==
    IF scr = OverlapTrimScript THEN [model |-> "base", chunk_duration |-> 7]
    ELSE IF scr = HailoOverlapTrimScript THEN [model |-> "base", chunk_duration |-> 5]
    ELSE [model |-> "base"]

\* config.chunk_duration: the attribute, or the property of Config in
\* transcribe-halo.py.
ChunkDuration(scr, cfg) ==
    IF scr = HailoScript
    THEN IF cfg.model = "tiny" THEN 10 ELSE 5
    ELSE cfg.chunk_duration

\* The number of options of the preset menu; the last one is Custom.
PresetOptions(scr) == IF scr = OverlapTrimScript THEN 4 ELSE 3

\* menu_preset: what it makes of the configuration, and whether it returns
\* True, which it does in its else branch.
MenuPreset(scr, cfg, c) ==
    IF scr = OverlapTrimScript
    THEN IF c = 0 THEN [config |-> [cfg EXCEPT !.model = "tiny"], custom |-> FALSE]
         ELSE IF c = 1 THEN [config |-> cfg, custom |-> FALSE]
         ELSE IF c = 2 THEN [config |-> [cfg EXCEPT !.model = "small"], custom |-> FALSE]
         ELSE [config |-> cfg, custom |-> TRUE]
    ELSE IF scr = HailoOverlapTrimScript
    THEN IF c = 0
         THEN [config |-> [model |-> "tiny", chunk_duration |-> 10], custom |-> FALSE]
         ELSE IF c = 1
         THEN [config |-> [model |-> "base", chunk_duration |-> 5], custom |-> FALSE]
         ELSE [config |-> cfg, custom |-> TRUE]
    ELSE IF c = 0 THEN [config |-> [cfg EXCEPT !.model = "tiny"], custom |-> FALSE]
         ELSE IF c = 1 THEN [config |-> [cfg EXCEPT !.model = "base"], custom |-> FALSE]
         ELSE [config |-> cfg, custom |-> TRUE]

\* model_map of menu_model_size, variant_map of menu_model_variant.
ModelMap(scr) ==
    IF scr = OverlapTrimScript
    THEN <<"tiny", "base", "small", "medium", "large-v3", "turbo">>
    ELSE <<"tiny", "base">>

MenuModel_KeepsDuration(scr, cfg, c) ==
    [cfg EXCEPT !.model = ModelMap(scr)[c + 1]]

\* menu_model_size and menu_model_variant for the choice c of the list;
\* menu_model_variant of raspberry-pi-5/transcribe-halo.py also sets the
\* chunk duration.
MenuModel(scr, cfg, c) ==
    IF scr = HailoOverlapTrimScript
    THEN [model |-> ModelMap(scr)[c + 1],
          chunk_duration |-> IF ModelMap(scr)[c + 1] = "tiny" THEN 10 ELSE 5]
    ELSE [cfg EXCEPT !.model = ModelMap(scr)[c + 1]]

\* chunk_map of menu_audio_processing in raspberry-pi-5/transcribe.py.
ChunkMap == <<3, 5, 7, 10, 15>>

\* The menu after the customization menus, or after a preset.
AfterMenus(scr) == IF scr = HailoScript THEN "enter" ELSE "confirm"

InitConfig ==
    /\ script \in ConfigScripts
    /\ pc = IF script \in {HailoScript, HailoOverlapTrimScript} THEN "load" ELSE "record"
    /\ SessionStart
    /\ fn = "none" /\ args = <<>> /\ returned = FALSE /\ ret = <<>> /\ raised = FALSE
    /\ calls = 0 /\ fresh = TRUE /\ dropped = <<>>
    /\ menu = "preset"
    /\ choice = NoChoice
    /\ config = DefaultConfig(script)
    /\ rounds = 1

\* custom = menu_preset(config)
ShowPresetMenu ==
    /\ menu = "preset"
    /\ \E c \in (0..(PresetOptions(script) - 1)) \cup {NoChoice} :
           /\ choice' = c
           /\ config' = MenuPreset(script, config, c).config
           /\ menu' = IF MenuPreset(script, config, c).custom THEN "model"
                      ELSE AfterMenus(script)
    /\ UNCHANGED <<rounds, sessionVars, pureVars, callVars>>

\* The first customization menu, of the model: model_map[choice] and
\* variant_map[choice] raise TypeError when the menu returned None.
ShowModelMenu ==
    /\ menu = "model"
    /\ \E c \in (0..(Len(ModelMap(script)) - 1)) \cup {NoChoice} :
           /\ choice' = c
           /\ IF c = NoChoice
              THEN /\ menu' = "crashed"
                   /\ config' = config
              ELSE /\ menu' = "others"
                   /\ config' = MenuModel(script, config, c)
    /\ UNCHANGED <<rounds, sessionVars, pureVars, callVars>>

\* The customization menus after it.  In raspberry-pi-5/transcribe.py
\* menu_audio_processing sets the chunk duration; the maps of both
\* raspberry-pi-5 scripts raise TypeError when a menu returned None, while the
\* menus of transcribe-halo.py compare the choice and take None as well.
ShowOtherMenus ==
    /\ menu = "others"
    /\ \E c \in (0..(Len(ChunkMap) - 1)) \cup {NoChoice} :
           /\ choice' = c
           /\ IF c = NoChoice /\ script # HailoScript
              THEN /\ menu' = "crashed"
                   /\ config' = config
              ELSE /\ menu' = AfterMenus(script)
                   /\ config' = IF script = OverlapTrimScript
                                THEN [config EXCEPT !.chunk_duration = ChunkMap[c + 1]]
                                ELSE config
    /\ UNCHANGED <<rounds, sessionVars, pureVars, callVars>>

\* The options "Yes, start transcription", "No, reconfigure" and "Cancel" of
\* the confirmation menu, by their index.
ConfirmYes == 0

ConfirmReconfigure == 1

ConfirmCancel == 2

\* The confirmation menu of configure_transcription: "Yes, start
\* transcription" returns the configuration to main, which starts
\* run_transcription; "No, reconfigure" calls configure_transcription again,
\* which constructs a new configuration; anything else is sys.exit(0).
Confirm ==
    /\ menu = "confirm"
    /\ \E c \in {ConfirmYes, ConfirmReconfigure, ConfirmCancel, NoChoice} :
           /\ choice' = c
           /\ c = ConfirmReconfigure => rounds < MaxRounds
           /\ menu' = IF c = ConfirmYes THEN "started"
                      ELSE IF c = ConfirmReconfigure THEN "preset"
                      ELSE "cancelled"
           /\ config' = IF c = ConfirmReconfigure THEN DefaultConfig(script) ELSE config
           /\ rounds' = IF c = ConfirmReconfigure THEN rounds + 1 ELSE rounds
    /\ UNCHANGED <<sessionVars, pureVars, callVars>>

\* transcribe-halo.py: input("Press Enter to start transcription ...").
PressEnter ==
    /\ menu = "enter"
    /\ menu' = "started"
    /\ UNCHANGED <<choice, config, rounds, sessionVars, pureVars, callVars>>

\* Ctrl-C while a menu or the prompt waits: KeyboardInterrupt ends the
\* process, in the raspberry-pi-5 scripts through main's sys.exit(0).
ConfigInterrupt ==
    /\ menu \in {"preset", "model", "others", "confirm", "enter"}
    /\ menu' = "interrupted"
    /\ UNCHANGED <<choice, config, rounds, sessionVars, pureVars, callVars>>

NextConfig ==
    \/ ShowPresetMenu
    \/ ShowModelMenu
    \/ ShowOtherMenus
    \/ Confirm
    \/ PressEnter
    \/ ConfigInterrupt

SpecConfig == InitConfig /\ [][NextConfig]_vars

(***************************************************************************)
(* Claims about the utility functions, checked under SpecPure              *)
(***************************************************************************)

\* The number of words of new_text, lower-cased, that equal one of the last
\* min(len, RepetitionWindow) lower-cased words of previous_text, counted
\* with multiplicity.
C1_MatchCount(new_text, previous_text) ==
    LET nw == Split(Lower(new_text))
        pw == Split(Lower(previous_text))
        lo == Len(pw) - Min2(Len(pw), 10) + 1
    IN Cardinality({i \in 1..Len(nw) : \E j \in lo..Len(pw) : nw[i] = pw[j]})

\* C1: is_repetition(new, prev) is true exactly when both texts are
\* non-empty, new has at least 3 words and more than 70% of new's lower-cased
\* words, with multiplicity, are among the last min(len(prevWords), 10)
\* lower-cased words of prev; exactly 70% is not a repetition and older words
\* of prev never count.
C1_IsRepetitionExact ==
    (fn = "is_repetition" /\ returned) =>
        LET n == Len(Split(Lower(args.new_text)))
            m == C1_MatchCount(args.new_text, args.previous_text)
        IN ret.is_repetition <=>
              /\ args.new_text # <<>>
              /\ args.previous_text # <<>>
              /\ n >= 3
              /\ 10 * m > 7 * n

\* is_repetition has answered False for a new text of 10 words, exactly 7 of
\* them in the window, whose other words occur in prev before the window.
C1_Witness ==
    /\ fn = "is_repetition" /\ returned
    /\ Len(Split(args.new_text)) = 10
    /\ Len(Split(args.previous_text)) = 11
    /\ C1_MatchCount(args.new_text, args.previous_text) = 7
    /\ \A w \in Range(Split(Lower(args.new_text))) :
           w \in Range(Split(Lower(args.previous_text)))
    /\ ~ret.is_repetition

\* The largest i in 1..min(newWordCount, prevWordCount, overlapWords) such
\* that the last i words of previous_words are the first i words of
\* new_words, or 0.
C2_OverlapCount(new_words, previous_words, overlap_words) ==
    LET np == Len(previous_words)
        top == Min2(Min2(Len(new_words), np), overlap_words)
        fits(i) == \A k \in 1..i : previous_words[np - i + k] = new_words[k]
    IN IF \E i \in 1..top : fits(i)
       THEN CHOOSE i \in 1..top : fits(i) /\ \A j \in (i + 1)..top : ~fits(j)
       ELSE 0

\* C2: remove_overlap removes from the start of the new text exactly
\* overlapCount words, the longest match of at most overlapWords words
\* between the tail of lastWords and the head of the new text, never more
\* than overlapWords; the remaining words keep their order and, the new text
\* being whitespace-normalized, are joined by single spaces.
C2_RemoveOverlapExact ==
    (fn = "remove_overlap" /\ returned) =>
        LET nw == Split(args.new_text)
            c == C2_OverlapCount(nw, args.previous_words, args.overlap_words)
            rest == [k \in 1..(Len(nw) - c) |-> nw[k + c]]
        IN /\ Split(ret.remove_overlap) = rest
           /\ Len(nw) - Len(Split(ret.remove_overlap)) <= Max2(args.overlap_words, 0)
           /\ (args.new_text = NormalizeWhitespace(args.new_text)) =>
                  ret.remove_overlap = Join(rest)

\* remove_overlap has removed two words where one, two and three words
\* matched and overlap_words was 2.
C2_Witness ==
    /\ fn = "remove_overlap" /\ returned
    /\ args.new_text = <<"a", " ", "a", " ", "a">>
    /\ args.previous_words = << <<"a">>, <<"a">>, <<"a">> >>
    /\ args.overlap_words = 2
    /\ ret.remove_overlap = <<"a">>

(***************************************************************************)
(* Claims about the sessions, checked under Spec                           *)
(***************************************************************************)

\* C3: in the overlap-trim loop last_text is always the full, pre-trim text
\* of the most recently accepted chunk (empty before any) and last_words is
\* that text split on whitespace.
C3_LastTextIsLastAccepted ==
    script = OverlapTrimScript =>
        /\ last_text = LastOf(accepted)
        /\ last_words = Split(LastOf(accepted))

\* After accepted and discarded chunks, the last stitched chunk was printed
\* without its leading overlap and last_text is its full text.
C3_Witness ==
    /\ script = OverlapTrimScript /\ pc = "record"
    /\ Len(accepted) >= 2
    /\ segment_num >= Len(accepted) + 2
    /\ printed # <<>>
    /\ Len(printed) < Len(text)
    /\ last_text = text
    /\ last_words = Split(text)

\* C4: a chunk classified as a repetition prints nothing and leaves
\* last_text, last_words, context_buffer and first_output unchanged.
C4_RepetitionLeavesState ==
    [][(Stitch /\ text # <<>> /\ Len(Split(text)) >= 1
               /\ IsRepetition(text, last_text))
          => /\ printed' = <<>>
             /\ UNCHANGED <<last_text, last_words, context_buffer, first_output>>]_vars

\* The chunk stitched last repeated the accepted text before it and was
\* dropped.
C4_Witness ==
    /\ script = OverlapTrimScript /\ pc = "record"
    /\ accepted # <<>>
    /\ text # <<>>
    /\ IsRepetition(text, last_text)
    /\ printed = <<>>
    /\ last_text = LastOf(accepted)

\* Every word of text duplicates the tail of previous_words, within the
\* overlap_words compared.
C5_AllOverlap(new_text, previous_words) ==
    LET nw == Split(new_text)
        n == Len(nw)
        np == Len(previous_words)
    IN /\ 1 <= n /\ n <= np /\ n <= 5
       /\ \A k \in 1..n : previous_words[np - n + k] = nw[k]

\* C5: when overlap trimming leaves an empty or whitespace-only result,
\* nothing is printed and last_text, last_words and context_buffer are not
\* updated.
C5_AllOverlapLeavesState ==
    [][(Stitch /\ text # <<>> /\ ~IsRepetition(text, last_text)
               /\ \/ C5_AllOverlap(text, last_words)
                  \/ Strip(RemoveOverlap(text, last_words, 5)) = <<>>)
          => /\ printed' = <<>>
             /\ UNCHANGED <<last_text, last_words, context_buffer>>]_vars

\* The chunk stitched last was not a repetition, all its words were the
\* tail of last_words, and it was dropped.
C5_Witness ==
    /\ script = OverlapTrimScript /\ pc = "record"
    /\ text # <<>>
    /\ ~IsRepetition(text, last_text)
    /\ C5_AllOverlap(text, last_words)
    /\ Len(last_words) > Len(Split(text))
    /\ printed = <<>>

\* C6: a chunk whose normalized text is empty or has fewer than min_words
\* words prints nothing and leaves last_text, last_words, context_buffer and
\* first_output unchanged.
C6_ShortLeavesState ==
    [][(Stitch /\ (text = <<>> \/ Len(Split(text)) < 1))
          => /\ printed' = <<>>
             /\ UNCHANGED <<last_text, last_words, context_buffer, first_output>>]_vars

\* An empty chunk was stitched after accepted chunks and nothing changed.
C6_Witness ==
    /\ script = OverlapTrimScript /\ pc = "record"
    /\ accepted # <<>>
    /\ text = <<>>
    /\ printed = <<>>
    /\ ~first_output
    /\ last_text = LastOf(accepted)

\* context_buffer after text is appended and the oldest entry past the
\* bound of 4 is evicted.
C7_Appended(buffer, full_text) ==
    LET all == Append(buffer, full_text)
    IN IF Len(all) > 4 THEN SubSeq(all, Len(all) - 3, Len(all)) ELSE all

\* C7 as stated: under either stitching policy, a chunk that produces output
\* appends its full text to context_buffer, becomes last_text and last_words
\* is recomputed from it.
C7_EitherPolicyRecordsChunk ==
    [][((Stitch \/ HailoStitch) /\ printed' # <<>>)
          => /\ context_buffer' = C7_Appended(context_buffer, text)
             /\ last_text' = text
             /\ last_words' = Split(text)]_vars

\* C7, amended: under the overlap-trim policy, a chunk that produces output
\* appends its full, pre-trim text to context_buffer, evicting the oldest
\* entry past the bound, becomes last_text (the full text, not the displayed
\* one) and last_words is that text split on whitespace.
C7_OverlapTrimRecordsChunk ==
    [][(Stitch /\ printed' # <<>>)
          => /\ context_buffer' = C7_Appended(context_buffer, text)
             /\ last_text' = text
             /\ last_words' = Split(text)]_vars

\* A chunk was printed trimmed when the buffer was full: the buffer holds
\* its full text last.
C7_Witness ==
    /\ script = OverlapTrimScript /\ pc = "record"
    /\ Len(accepted) > 4
    /\ printed # <<>>
    /\ Len(printed) < Len(text)
    /\ Len(context_buffer) = 4
    /\ context_buffer[4] = text
    /\ last_text = text

\* C8: context_buffer never holds more than max_context_chunks entries, and
\* they are the most recently accepted full texts in acceptance order; once
\* more chunks than that were accepted it holds exactly max_context_chunks.
C8_ContextBufferIsRecentWindow ==
    LET n == Len(accepted)
        k == IF n > 4 THEN 4 ELSE n
    IN /\ Len(context_buffer) <= 4
       /\ Len(context_buffer) = k
       /\ \A i \in 1..k : context_buffer[i] = accepted[n - k + i]

\* More than max_context_chunks chunks were accepted and the oldest is gone.
C8_Witness ==
    /\ Len(accepted) > 4
    /\ Len(context_buffer) = 4
    /\ context_buffer[1] = accepted[Len(accepted) - 3]
    /\ context_buffer[1] # accepted[1]

\* incomplete_buffer, a single space and text, or text alone after an empty
\* buffer.
FullTextOf(buffer, chunk) ==
    IF buffer = <<>> THEN chunk ELSE buffer \o <<" ">> \o chunk

\* C9: when the chunk's own text ends with '.', '!' or '?',
\* process_transcription clears incomplete_buffer and returns exactly the
\* full text, the buffer, a space and the chunk's text, with no ellipsis.
C9_TerminalClearsBuffer ==
    [][(HailoStitch /\ EndsSentence(text))
          => /\ incomplete_buffer' = <<>>
             /\ display_text' = FullTextOf(incomplete_buffer, text)
             /\ printed' = display_text']_vars

\* A chunk ending a sentence was returned behind the buffered fragment.
C9_Witness ==
    /\ script = HailoScript /\ pc \in {"record", "transcribe"}
    /\ EndsSentence(text)
    /\ is_continuation
    /\ incomplete_buffer = <<>>
    /\ Len(display_text) > Len(text) + 1
    /\ SubSeq(display_text, Len(display_text) - Len(text), Len(display_text))
          = <<" ">> \o text

\* C10: when the chunk's text does not end with terminal punctuation,
\* incomplete_buffer becomes the full text and the display text is the full
\* text followed by "..."; the marker is never stored, so a non-empty buffer
\* is always the display text without its three trailing characters.
C10_MarkerNotBuffered ==
    [][/\ (HailoStitch /\ text # <<>> /\ ~EndsSentence(text))
            => /\ incomplete_buffer' = FullTextOf(incomplete_buffer, text)
               /\ display_text' = incomplete_buffer' \o <<".", ".", ".">>
       /\ incomplete_buffer' # <<>>
            => /\ Len(display_text') = Len(incomplete_buffer') + 3
               /\ SubSeq(display_text', 1, Len(incomplete_buffer')) = incomplete_buffer'
               /\ SubSeq(display_text', Len(incomplete_buffer') + 1, Len(display_text'))
                     = <<".", ".", ".">>]_vars

\* Two chunks in a row did not end a sentence: the buffer holds both and no
\* marker.
C10_Witness ==
    /\ script = HailoScript /\ pc \in {"record", "transcribe"}
    /\ is_continuation
    /\ ~EndsSentence(text) /\ text # <<>>
    /\ Len(incomplete_buffer) > Len(text) + 1
    /\ display_text = incomplete_buffer \o <<".", ".", ".">>
    /\ \A i \in 1..(Len(incomplete_buffer) - 2) :
           SubSeq(incomplete_buffer, i, i + 2) # <<".", ".", ".">>

\* C11: in transcribe-halo.py, for a run t1..tk of consecutive non-empty
\* chunks that starts on an empty buffer and in which only tk ends with
\* terminal punctuation, the display text of every ti before tk is t1..ti
\* joined by single spaces and followed by "...", the display text of tk is
\* t1..tk joined by single spaces, and the buffer is empty after tk.
C11_RunDisplaysJoined ==
    (script = HailoScript /\ sentence # <<>>) =>
        IF EndsSentence(LastOf(sentence))
        THEN /\ display_text = Join(sentence)
             /\ incomplete_buffer = <<>>
        ELSE display_text = Join(sentence) \o <<".", ".", ".">>

\* A run of three chunks, the third ending the sentence, was displayed whole.
C11_Witness ==
    /\ script = HailoScript
    /\ Len(sentence) = 3
    /\ ~EndsSentence(sentence[1]) /\ ~EndsSentence(sentence[2])
    /\ EndsSentence(sentence[3])
    /\ display_text = sentence[1] \o <<" ">> \o sentence[2] \o <<" ">> \o sentence[3]
    /\ incomplete_buffer = <<>>

\* C12: for every non-empty chunk, is_continuation is true exactly when
\* incomplete_buffer was non-empty immediately before the call, that is
\* exactly when there was a previous non-empty chunk and it did not end with
\* terminal punctuation.
C12_ContinuationIffBuffered ==
    [][(HailoStitch /\ text # <<>>)
          => /\ is_continuation' <=> incomplete_buffer # <<>>
             /\ is_continuation' <=>
                   (sentence # <<>> /\ ~EndsSentence(LastOf(sentence)))]_vars

\* A chunk that ends a sentence was flagged as a continuation of the
\* unfinished chunk before it.
C12_Witness ==
    /\ script = HailoScript /\ pc \in {"record", "transcribe"}
    /\ Len(sentence) = 2
    /\ sentence[2] = text
    /\ ~EndsSentence(sentence[1])
    /\ EndsSentence(text)
    /\ is_continuation

\* C13: incomplete_buffer is empty when the most recent non-empty chunk ended
\* with '.', '!' or '?' or when no chunk was processed yet; otherwise it is
\* non-empty and does not itself end with '.', '!' or '?'.
C13_BufferTracksLastChunk ==
    script = HailoScript =>
        IF sentence = <<>> \/ EndsSentence(LastOf(sentence))
        THEN incomplete_buffer = <<>>
        ELSE /\ incomplete_buffer # <<>>
             /\ ~EndsSentence(incomplete_buffer)

\* The buffer holds an unfinished chunk with a full stop inside it.
C13_Witness ==
    /\ script = HailoScript
    /\ sentence # <<>>
    /\ ~EndsSentence(LastOf(sentence))
    /\ incomplete_buffer # <<>>
    /\ \E i \in 1..Len(incomplete_buffer) : incomplete_buffer[i] = "."

\* The stages that may follow a stage of the loop: record, the checks of the
\* recording, transcribe, then stitch and display; "exited" ends the process.
C14_NextStages(scr, stage) ==
    IF scr = OverlapTrimScript
    THEN CASE stage = "record" -> {"energy", "exited"}
           [] stage = "energy" -> {"transcribe", "record", "exited"}
           [] stage = "transcribe" -> {"stitch", "exited"}
           [] stage = "stitch" -> {"record", "exited"}
           [] OTHER -> {}
    ELSE IF scr = SimpleScript
    THEN CASE stage = "record" -> {"transcribe", "exited"}
           [] stage = "transcribe" -> {"stitch", "exited"}
           [] stage = "stitch" -> {"record", "exited"}
           [] OTHER -> {}
    ELSE IF scr = HailoScript
    THEN CASE stage = "load" -> {"banner", "exited"}
           [] stage = "banner" -> {"record", "exited"}
           [] stage = "record" -> {"process", "record", "exited"}
           [] stage = "process" -> {"transcribe", "cleanup", "exited"}
           [] stage = "transcribe" -> {"stitch", "cleanup", "exited"}
           [] stage = "stitch" -> {"transcribe", "cleanup", "exited"}
           [] stage = "cleanup" -> {"record", "exited"}
           [] OTHER -> {}
    ELSE CASE stage = "load" -> {"banner", "exited"}
           [] stage = "banner" -> {"record", "exited"}
           [] stage = "record" -> {"energy", "stopped", "exited"}
           [] stage = "stopped" -> {"exited"}
           [] stage = "energy" -> {"transcribe", "record", "exited"}
           [] stage = "transcribe" -> {"stitch", "record", "exited"}
           [] stage = "stitch" -> {"record", "exited"}
           [] OTHER -> {}

\* C14: the stages of a chunk run strictly in the order record, transcribe,
\* stitch and display; a recording begins only at the stage "record", that is
\* after the previous chunk was stitched and displayed or dropped, so at most
\* one chunk is in flight; the text changes only at the stage "transcribe",
\* and the stitcher's and the tracker's variables and the transcript change
\* only at the stage "stitch", one call at a time.
C14_StagesInOrder ==
    [][/\ pc' \in C14_NextStages(script, pc)
       /\ segment_num' # segment_num
             => /\ pc = "record"
                /\ segment_num' = segment_num + 1
       /\ text' # text => (pc = "transcribe" /\ pc' = "stitch")
       /\ (stitchVars' # stitchVars \/ trackerVars' # trackerVars)
             => /\ pc = "stitch"
                /\ pc' \in {"record", "transcribe", "cleanup"}
                /\ UNCHANGED <<segment_num, text>>]_vars

\* The second chunk of the overlap-trim loop is transcribed and waits for its
\* stitching, after the first was displayed.
C14_Witness ==
    /\ script = OverlapTrimScript
    /\ segment_num = 2
    /\ pc = "stitch"
    /\ text # <<>>
    /\ Len(accepted) = 1
    /\ printed # <<>>

\* C15: whenever a session that holds an initialized Hailo pipeline is ended
\* by Ctrl-C, at any point after the pipeline was created, pipeline.stop()
\* has been called before the process exits.
C15_InterruptStopsPipeline ==
    [][((HailoSignal \/ HailoKeyboardInterrupt) /\ pipeline # "None")
          => pipeline_stops' > 0]_vars

\* The last recording failed.
C16_Failed(r) == r \notin {"none", "ok"}

\* C16 as stated: a collaborator failure ends the whole session; after it the
\* loop never records or transcribes a further chunk.
C16_FailureEndsSession ==
    [][(script \in {OverlapTrimScript, HailoScript} /\ C16_Failed(recording))
          => /\ segment_num' = segment_num
             /\ pc' \notin {"energy", "process", "transcribe", "stitch"}]_vars

\* C16, amended: in raspberry-pi-5/transcribe.py a failed recording ends the
\* process at once and no step follows it; in transcribe-halo.py a failed or
\* timed-out recording sends the loop back to record the next chunk.
C16_FailureEndsOverlapTrimSession ==
    [][/\ (script = OverlapTrimScript /\ C16_Failed(recording'))
             => (pc' = "exited" /\ ~C16_Failed(recording))
       /\ (script = HailoScript /\ HailoRecord /\ C16_Failed(recording'))
             => pc' = "record"]_vars

\* The second recording of the overlap-trim loop gave an empty file, after a
\* displayed chunk, and the process has exited.
C16_Witness ==
    /\ script = OverlapTrimScript
    /\ recording = "empty"
    /\ segment_num = 2
    /\ accepted # <<>>
    /\ pc = "exited"

C18_ShortNeverRepetition ==
    (fn = "is_repetition" /\ returned /\ Len(Split(args.new_text)) < 3)
        => ~ret.is_repetition

\* is_repetition has answered False for a text of 2 words identical to the
\* previous text.
C18_Witness ==
    /\ fn = "is_repetition" /\ returned
    /\ Len(Split(args.new_text)) = 2
    /\ args.previous_text = args.new_text
    /\ ~ret.is_repetition

\* The words of a list, each lower-cased.
C19_LowerWords(ws) == [k \in 1..Len(ws) |-> Lower(ws[k])]

\* The last i previous words and the first i new words are the same words
\* in a different letter case.
C19_CaseOnly(new_words, previous_words, i) ==
    /\ SliceLast(previous_words, i) # SliceFirst(new_words, i)
    /\ C19_LowerWords(SliceLast(previous_words, i))
          = C19_LowerWords(SliceFirst(new_words, i))

C20_OneSpaceBetweenOutputs ==
    [][/\ ((Stitch \/ SimpleStitch) /\ printed' # <<>>)
             => IF accepted = <<>>
                THEN /\ first_output
                     /\ printed'[1] \notin Whitespace
                ELSE /\ ~first_output
                     /\ Len(printed') >= 2
                     /\ printed'[1] = " "
                     /\ printed'[2] \notin Whitespace
       /\ ((Stitch \/ SimpleStitch) /\ printed' = <<>>)
             => first_output' = first_output
       /\ ~first_output => ~first_output']_vars

\* The fourth chunk of the overlap-trim loop printed the second output of the
\* session, behind one space; two chunks printed nothing.
C20_Witness ==
    /\ script = OverlapTrimScript /\ pc = "record"
    /\ segment_num = 4
    /\ Len(accepted) = 2
    /\ ~first_output
    /\ Len(printed) >= 2
    /\ printed[1] = " "
    /\ printed[2] \notin Whitespace

(***************************************************************************)
(* Claims about the tracker's reset, checked under SpecTracker             *)
(***************************************************************************)

\* C23: when a session starts last_text, last_words and context_buffer are
\* empty, first_output is true and incomplete_buffer is empty;
\* ContextTracker.reset() leaves incomplete_buffer empty as __init__ does, and
\* the first non-empty chunk processed after __init__ or a reset is returned
\* with is_continuation false and without a buffered prefix.
C23_ResetRestoresStart ==
    [][/\ calls = 0
             => /\ last_text = <<>> /\ last_words = <<>> /\ context_buffer = <<>>
                /\ first_output
                /\ incomplete_buffer = <<>>
       /\ TrackerReset => incomplete_buffer' = <<>>
       /\ (fresh /\ TrackerProcessTranscription /\ text' # <<>>)
             => /\ is_continuation' = FALSE
                /\ display_text' \in {text', text' \o Ellipsis}]_vars

\* A fragment was buffered, reset() threw it away, and the next chunk came
\* back on its own, not as a continuation.
C23_Witness ==
    /\ calls = 3
    /\ dropped = <<"a", " ", "b">>
    /\ ~fresh
    /\ text = <<"a">>
    /\ display_text = <<"a", ".", ".", ".">>
    /\ is_continuation = FALSE
    /\ incomplete_buffer = <<"a">>

(***************************************************************************)
(* Claims about the energy check, the prompt and the printed text          *)
(***************************************************************************)



\* C21: a chunk that fails the audio energy check is never passed to the
\* transcriber or the stitcher: the step that finds its energy low goes
\* straight back to recording and leaves the text and the stitcher's variables
\* as they were, and every chunk at the stage "transcribe" or "stitch" of the
\* two scripts with an energy check has passed it.
C21_LowEnergySkipsChunk ==
    [][/\ ((CheckEnergy \/ Pi5HailoCheckEnergy) /\ energy' = "low")
             => /\ pc' = "record"
                /\ UNCHANGED <<segment_num, text, stitchVars, accepted>>
       /\ (/\ script \in {OverlapTrimScript, HailoOverlapTrimScript}
           /\ pc' \in {"transcribe", "stitch"})
             => energy' = "ok"]_vars

\* The second chunk of the overlap-trim loop had too little energy, after the
\* first was displayed, and the loop is back at recording.
C21_Witness ==
    /\ script = OverlapTrimScript
    /\ segment_num = 2
    /\ Len(accepted) = 1
    /\ energy = "low"
    /\ pc = "record"
    /\ last_text # <<>>

\* C22: normalize_whitespace is idempotent, and its result has no blank at
\* its start or its end and no two blanks in a row: the only blanks left are
\* single spaces between words.
C22_NormalizeWhitespaceIdempotent ==
    (fn = "normalize_whitespace" /\ returned)
        => LET r == ret.normalize_whitespace
           IN /\ NormalizeWhitespace(r) = r
              /\ r # <<>> => (r[1] \notin Whitespace /\ r[Len(r)] \notin Whitespace)
              /\ \A i \in 1..(Len(r) - 1) :
                     ~(r[i] \in Whitespace /\ r[i + 1] \in Whitespace)
              /\ \A i \in 1..Len(r) : r[i] \in Whitespace => r[i] = " "

\* A text with a leading space and a tab followed by a newline between two
\* words came back as the two words with one space between them.
C22_Witness ==
    /\ fn = "normalize_whitespace" /\ returned
    /\ args.text = <<" ", "a", "\t", "\n", "a">>
    /\ ret.normalize_whitespace = <<"a", " ", "a">>

\* C24: in transcribe.py the initial_prompt the transcriber is given for a
\* chunk is the single-space join of the most recent non-empty transcripts of
\* the chunks before it, at most MAX_CONTEXT_CHUNKS of them and in their
\* order, and None when there is none; the chunk's own text, which joins the
\* history only when it is stitched, is not part of it.
C24_PromptIsRecentTranscripts ==
    (script = SimpleScript /\ pc = "stitch")
        => LET n == Len(accepted)
               k == Min2(n, MaxContextChunks)
               recent == [i \in 1..k |-> accepted[n - k + i]]
           IN /\ \A i \in 1..n : accepted[i] # <<>>
              /\ initial_prompt = IF n = 0 THEN None ELSE JoinWith(<<" ">>, recent)

\* The sixth chunk of transcribe.py was transcribed with a prompt after five
\* chunks with text: the oldest of them is no longer part of the context.
C24_Witness ==
    /\ script = SimpleScript
    /\ pc = "stitch"
    /\ segment_num = 6
    /\ Len(accepted) = 5
    /\ initial_prompt = JoinWith(<<" ">>, SubSeq(accepted, 2, 5))
    /\ accepted[1] # accepted[2]

(***************************************************************************)
(* Claims about the configuration workflow, checked under SpecConfig       *)
(***************************************************************************)

\* C25: the workflow of configure_transcription moves from the preset choice
\* to the customization menus only if Custom, the last option, was chosen,
\* and otherwise to the confirmation; transcription starts only after "Yes,
\* start transcription" at the confirmation; "No, reconfigure" leads back to
\* the preset choice with a default configuration; "Cancel" exits, and after
\* it transcription never starts.
C25_WorkflowOrder ==
    [][(script \in {OverlapTrimScript, HailoOverlapTrimScript}) =>
         (/\ menu = "preset"
                => /\ menu' \in {"model", "confirm", "interrupted"}
                   /\ menu' = "model" => choice' = PresetOptions(script) - 1
                   /\ menu' = "confirm" => choice' \in 0..(PresetOptions(script) - 2)
          /\ menu \in {"model", "others"}
                => menu' \in {"others", "confirm", "crashed", "interrupted"}
          /\ menu' = "started" => (menu = "confirm" /\ choice' = ConfirmYes)
          /\ (menu = "confirm" /\ menu' # "interrupted" /\ choice' = ConfirmReconfigure)
                => /\ menu' = "preset"
                   /\ config' = DefaultConfig(script)
          /\ (menu = "confirm" /\ menu' # "interrupted" /\ choice' = ConfirmCancel)
                => menu' = "cancelled"
          /\ menu = "cancelled" => menu' = "cancelled")]_vars

\* C29: after any menu choices the chunk duration of the Hailo scripts is 10
\* seconds exactly when the model variant is 'tiny', and 5 seconds otherwise.
C29_ChunkDurationMatchesVariant ==
    script \in {HailoOverlapTrimScript, HailoScript}
        => /\ ChunkDuration(script, config) = IF config.model = "tiny" THEN 10 ELSE 5
           /\ config.model \in {"tiny", "base"}

\* In raspberry-pi-5/transcribe-halo.py Custom was chosen and the model
\* variant menu changed the default 'base' with 5 seconds to 'tiny' with 10.
C29_Witness ==
    /\ script = HailoOverlapTrimScript
    /\ menu = "others"
    /\ rounds = 1
    /\ choice = 0
    /\ config = [model |-> "tiny", chunk_duration |-> 10]

\* C26: in the overlap-trim loop a chunk reaches the all-overlap outcome,
\* where trimming leaves nothing, only with 1 or 2 words: a chunk of 3 or more
\* words whose words all duplicate the tail of last_words is a repetition and
\* was discarded by the repetition filter before any trimming.
C26_AllOverlapOnlyShortChunks ==
    [][Stitch =>
         (/\ (/\ text # <<>>
              /\ ~IsRepetition(text, last_text)
              /\ Strip(RemoveOverlap(text, last_words, OverlapWords)) = <<>>)
                => Len(Split(text)) \in {1, 2}
          /\ (Len(Split(text)) >= 3 /\ C5_AllOverlap(text, last_words))
                => /\ IsRepetition(text, last_text)
                   /\ printed' = <<>>
                   /\ UNCHANGED <<last_text, last_words, context_buffer>>)]_vars

\* A chunk of two words, both the tail of last_words, was not a repetition
\* and was trimmed to nothing.
C26_Witness ==
    /\ script = OverlapTrimScript /\ pc = "record"
    /\ text = <<"c", " ", "d">>
    /\ last_words = <<"b", "c", "d">>
    /\ ~IsRepetition(text, last_text)
    /\ RemoveOverlap(text, last_words, OverlapWords) = <<>>
    /\ printed = <<>>
    /\ segment_num = 2

\* What a stitching step wrote without the space that separates it from the
\* output before it.
C27_Output(was_first, out) ==
    IF out = <<>> THEN <<>>
    ELSE IF was_first THEN out
    ELSE Tail(out)

\* C27: every text the overlap-trim loop prints is non-empty and consists of
\* the last words of the chunk's full text, joined by single spaces, and
\* total_words grows by exactly the number of words printed (by none when
\* nothing is printed).
C27_PrintedIsWordSuffix ==
    [][Stitch =>
         LET output == C27_Output(first_output, printed')
             words == Split(output)
             full == Split(text)
         IN /\ printed' # <<>>
                  => /\ words # <<>>
                     /\ output = Join(words)
                     /\ \E k \in 0..(Len(full) - 1) : words = SliceFrom(full, k)
            /\ total_words' = total_words + Len(words)]_vars

\* After "a b c" the chunk "b c d" printed its last word only, and the
\* word count went from three to four.
C27_Witness ==
    /\ script = OverlapTrimScript /\ pc = "record"
    /\ segment_num = 2
    /\ text = <<"b", " ", "c", " ", "d">>
    /\ printed = <<" ", "d">>
    /\ total_words = 4

\* C28: in transcribe-halo.py incomplete_buffer is left unchanged by every
\* step other than the processing of a non-empty text: by a failed recording,
\* a recording without mel spectrograms, an empty or silent transcription and
\* a processing exception; process_transcription with an empty text returns
\* ("", False) and leaves the buffer as well; so a pending fragment survives
\* and is put before the next non-empty chunk.
C28_NoTextKeepsBuffer ==
    [][script = HailoScript =>
         (/\ ~(HailoStitch /\ text # <<>>) => incomplete_buffer' = incomplete_buffer
          /\ ProcessTranscription(incomplete_buffer, <<>>)
                = [incomplete_buffer |-> incomplete_buffer,
                   display_text |-> <<>>, is_continuation |-> FALSE]
          /\ (HailoStitch /\ text # <<>> /\ incomplete_buffer # <<>>)
                => /\ is_continuation'
                   /\ SliceFirst(display_text',
                                 Len(incomplete_buffer) + 1 + Len(text))
                         = incomplete_buffer \o <<" ">> \o text)]_vars

\* The second recording failed while a fragment of the first was pending, and
\* the fragment is still in the buffer when the loop records again.
C28_Witness ==
    /\ script = HailoScript /\ pc = "record"
    /\ segment_num = 2
    /\ recording = "failed"
    /\ incomplete_buffer # <<>>
    /\ incomplete_buffer = LastOf(sentence)

(***************************************************************************)
(* Claims about the release of the Hailo pipeline                          *)
(***************************************************************************)

\* C30: in every session of a Hailo script that ends once its interrupt
\* handling is in place (signal_handler installed in transcribe-halo.py, the
\* loop of raspberry-pi-5/transcribe-halo.py entered), by an interrupt or by a
\* fatal recording error, pipeline.stop() was called exactly once.
C30_StoppedExactlyOnce ==
    /\ (script = HailoScript /\ handler /\ pc = "exited") => pipeline_stops = 1
    /\ (script = HailoOverlapTrimScript /\ segment_num >= 1 /\ pc = "exited")
          => pipeline_stops = 1

=============================================================================
